---- MODULE Spec2Model ----
(***************************************************************************)
(* The add-on reconciliation of the hybrid botanist                        *)
(* (pkg/operation/hybridbotanist/addons.go): the three stage operations    *)
(* generateCoreAddonsChart, generateOptionalAddonsChart and                *)
(* generateAdmissionControlsChart, one action per collaborator call, run   *)
(* by a driver that handles the bundles in the order core, optional,       *)
(* admission-control.                                                      *)
(***************************************************************************)
EXTENDS Integers, Sequences, FiniteSets, TLC

\* ------------------------------------------------------------------ bounds

\* Legacy (heapster) deployments that may exist in the shoot: 1..MaxLegacy.
MaxLegacy == 2
\* Secret rotations the credential manager performs over a behaviour.
MaxRotations == 1

\* ------------------------------------------------------ configuration trees

\* A map[string]interface{} value is a tagged tree: a map node holds a function
\* from keys to trees, a leaf holds any other value (a tagged tuple).
Leaf(x) == [kind |-> "leaf", val |-> x]
Map(f) == [kind |-> "map", val |-> f]
EmptyMap == Map([k \in {} |-> 0])
IsMap(t) == t.kind = "map"
Keys(t) == DOMAIN t.val
Has(t, k) == IsMap(t) /\ k \in Keys(t)
\* t[k] = sub
Put(t, k, sub) == Map([x \in Keys(t) \cup {k} |-> IF x = k THEN sub ELSE t.val[x]])

Nil == <<"nil">>
Str(s) == <<"str", s>>
\* data[key] of a map[string][]byte: nil when the key is absent
DataGet(data, key) == IF key \in DOMAIN data THEN data[key] ELSE Nil

\* secrets[name] of b.Secrets: the zero Secret (no data) when the name is absent
NilSecret == [Data |-> [k \in {} |-> Nil]]
SecretOf(secrets, name) == IF name \in DOMAIN secrets THEN secrets[name] ELSE NilSecret
\* checksums[name] of b.CheckSums (a map[string]string): "" when the name is absent
CheckSumOf(checksums, name) == IF name \in DOMAIN checksums THEN checksums[name] ELSE Str("")

\* ------------------------------------------------------------------ inputs

RequiredSecrets == {"kube-proxy", "vpn-shoot", "vpn-seed-tlsauth", "ca-metrics-server", "metrics-server"}
\* common.GardenRoleOpenVPNDiffieHellman
DHSecret == "openvpn-diffie-hellman-key"
SecretNames == RequiredSecrets \cup {DHSecret}

SecretKeys(name) ==
    CASE name = "kube-proxy" -> {"kubeconfig"}
      [] name = "vpn-shoot" -> {"ca.crt", "tls.key"}
      [] name = "vpn-seed-tlsauth" -> {"vpn.tlsauth"}
      [] name = "ca-metrics-server" -> {"ca.crt"}
      [] name = "metrics-server" -> {"tls.crt", "tls.key"}
      [] OTHER -> {"dh2048.pem"}

\* The secret the credential manager produces for `name` at content version v.
GenerateSecret(name, v) == [Data |-> [k \in SecretKeys(name) |-> <<"bytes", name, k, v>>]]

\* The credential manager's content hash: equal content, equal checksum; any
\* change of content changes it.
ComputeChecksum(secret) == <<"sha256", secret.Data>>

ComputeCheckSums(secrets) == [n \in DOMAIN secrets |-> ComputeChecksum(secrets[n])]

Providers == {"aws", "alicloud"}

NilKubeProxy == [isNil |-> TRUE]
KubeProxyConfigs == {NilKubeProxy, [isNil |-> FALSE, FeatureGates |-> <<"featureGates", "SupportIPVSProxyMode">>]}

\* Every combination of the fields of a cluster specification the stages read.
AllShoots ==
    [CloudProvider : Providers,
     PodNetwork : {Str("100.96.0.0/11")},
     ServiceNetwork : {Str("100.64.0.0/13")},
     NodeNetwork : {Str("10.250.0.0/16")},
     KubeProxy : KubeProxyConfigs,
     NginxIngressEnabled : BOOLEAN,
     LoadBalancerSourceRanges : {<<"list", <<>> >>, <<"list", <<"10.0.0.0/8">> >>},
     UsedAsSeed : BOOLEAN]

\* The specification with no optional section and no addon flagged.
DefaultShoot ==
    [CloudProvider |-> "aws",
     PodNetwork |-> Str("100.96.0.0/11"),
     ServiceNetwork |-> Str("100.64.0.0/13"),
     NodeNetwork |-> Str("10.250.0.0/16"),
     KubeProxy |-> NilKubeProxy,
     NginxIngressEnabled |-> FALSE,
     LoadBalancerSourceRanges |-> <<"list", <<>> >>,
     UsedAsSeed |-> FALSE]

SameIngress(s, t) ==
    /\ s.NginxIngressEnabled = t.NginxIngressEnabled
    /\ s.LoadBalancerSourceRanges = t.LoadBalancerSourceRanges
    /\ s.UsedAsSeed = t.UsedAsSeed

\* The cluster specifications a cycle may be given: the provider (read for the
\* provider's configurations), the kube-proxy section (read by the core stage)
\* and the ingress fields (read by the optional stage) are varied one group at
\* a time.
Shoots ==
    {s \in AllShoots :
        \/ s.KubeProxy = DefaultShoot.KubeProxy /\ s.CloudProvider = DefaultShoot.CloudProvider
        \/ s.KubeProxy = DefaultShoot.KubeProxy /\ SameIngress(s, DefaultShoot)
        \/ s.CloudProvider = DefaultShoot.CloudProvider /\ SameIngress(s, DefaultShoot)}

\* b.K8sShootClient.Version()
K8sVersion == "1.11.0"

\* ------------------------------------------------------------ collaborators

\* Botanist.InjectImages: the configuration augmented with the concrete image
\* of every logical name of imageMap, resolved for the given version.
InjectImages(values, version, imageMap) ==
    Put(values, "images", Map([k \in DOMAIN imageMap |-> Leaf(<<"image", imageMap[k], version>>)]))

\* ChartShootRenderer.Render: deterministic in its four arguments.
RenderChart(chartPath, name, namespace, values) ==
    [chart |-> chartPath, name |-> name, namespace |-> namespace, values |-> values]

NilChart == [chart |-> "nil"]

\* utils.MergeMaps: nested maps are merged key by key, the second argument
\* winning at the leaves; lists and scalars are replaced wholesale.
RECURSIVE MergeMaps(_, _)
MergeMaps(a, b) ==
    Map([k \in Keys(a) \cup Keys(b) |->
            IF k \notin Keys(b) THEN a.val[k]
            ELSE IF k \in Keys(a) /\ IsMap(a.val[k]) /\ IsMap(b.val[k])
                 THEN MergeMaps(a.val[k], b.val[k])
                 ELSE b.val[k]])

\* common.ComputeClusterIP(serviceNetwork, n)
ComputeClusterIP(serviceNetwork, n) == <<"ip", serviceNetwork, n>>

\* gardenv1beta1.DefaultDomain
DefaultDomain == Str("cluster.local")

\* The provider's base ingress configuration (ShootCloudBotanist
\* .GenerateNginxIngressConfig): a provider without ingress specifics returns
\* an explicit empty configuration.
NginxIngressBase(shoot) ==
    IF shoot.CloudProvider = "aws"
    THEN Map([controller |-> Map([
                 service |-> Map([loadBalancerSourceRanges |-> Leaf(<<"list", <<"0.0.0.0/0">> >>),
                                  annotations |-> Leaf(Str("aws-load-balancer-proxy-protocol"))]),
                 config |-> Map("use-proxy-protocol" :> Leaf(Str("true")))])])
    ELSE EmptyMap

\* The generators of the Botanist and of the ShootCloudBotanist.
GeneratedConfig(addon, shoot) ==
    CASE addon = "nginx-ingress" -> NginxIngressBase(shoot)
      [] addon = "kube2iam" -> IF shoot.CloudProvider = "aws"
                               THEN Map([enabled |-> Leaf(<<"bool", TRUE>>)])
                               ELSE EmptyMap
      [] addon = "admission-controls" -> Map([provider |-> Leaf(Str(shoot.CloudProvider))])
      [] OTHER -> Map([enabled |-> Leaf(<<"bool", FALSE>>)])

\* apierrors.IsNotFound
IsNotFound(err) == err.kind = "NotFound"

\* Error values as the collaborators produce them: they carry no stage tag.
NoErr == [kind |-> "nil", tag |-> "none"]
CollabErr(kind) == [kind |-> kind, tag |-> "none"]
CollabErrors == {CollabErr("NotFound"), CollabErr("Other")}

\* ------------------------------------------------- core configuration trees

\* The context b of a stage operation: [Secrets, CheckSums, Shoot].
Ctx(secrets, checksums, shoot) == [Secrets |-> secrets, CheckSums |-> checksums, Shoot |-> shoot]

GlobalConfig(b) == Map([podNetwork |-> Leaf(b.Shoot.PodNetwork)])

CalicoConfig(b) == Map([cloudProvider |-> Leaf(Str(b.Shoot.CloudProvider))])

KubeDNSConfig(b) ==
    Map([clusterDNS |-> Leaf(ComputeClusterIP(b.Shoot.ServiceNetwork, 10)),
         domain |-> Leaf(DefaultDomain)])

KubeProxyConfig(b) ==
    LET base == Map([kubeconfig |-> Leaf(DataGet(SecretOf(b.Secrets, "kube-proxy").Data, "kubeconfig")),
                     podAnnotations |-> Map("checksum/secret-kube-proxy" :> Leaf(CheckSumOf(b.CheckSums, "kube-proxy")))])
    IN  IF ~b.Shoot.KubeProxy.isNil
        THEN Put(base, "featureGates", Leaf(b.Shoot.KubeProxy.FeatureGates))
        ELSE base

MetricsServerConfig(b) ==
    Map([tls |-> Map([caBundle |-> Leaf(DataGet(SecretOf(b.Secrets, "ca-metrics-server").Data, "ca.crt"))]),
         secret |-> Map([data |-> Leaf(<<"data", SecretOf(b.Secrets, "metrics-server").Data>>)])])

\* Mutant: the Diffie-Hellman key is set whether or not the secret is there.
VpnShootConfig_AlwaysDH(b) ==
    Map([podNetwork |-> Leaf(b.Shoot.PodNetwork),
         serviceNetwork |-> Leaf(b.Shoot.ServiceNetwork),
         nodeNetwork |-> Leaf(b.Shoot.NodeNetwork),
         tlsAuth |-> Leaf(DataGet(SecretOf(b.Secrets, "vpn-seed-tlsauth").Data, "vpn.tlsauth")),
         podAnnotations |-> Map("checksum/secret-vpn-shoot" :> Leaf(CheckSumOf(b.CheckSums, "vpn-shoot"))),
         diffieHellmanKey |-> Leaf(DataGet(SecretOf(b.Secrets, DHSecret).Data, "dh2048.pem"))])

VpnShootConfig(b) ==
    LET base == Map([podNetwork |-> Leaf(b.Shoot.PodNetwork),
                     serviceNetwork |-> Leaf(b.Shoot.ServiceNetwork),
                     nodeNetwork |-> Leaf(b.Shoot.NodeNetwork),
                     tlsAuth |-> Leaf(DataGet(SecretOf(b.Secrets, "vpn-seed-tlsauth").Data, "vpn.tlsauth")),
                     podAnnotations |-> Map("checksum/secret-vpn-shoot" :> Leaf(CheckSumOf(b.CheckSums, "vpn-shoot")))])
    IN  IF DHSecret \in DOMAIN b.Secrets
        THEN Put(base, "diffieHellmanKey", Leaf(DataGet(b.Secrets[DHSecret].Data, "dh2048.pem")))
        ELSE base

NodeExporterConfig(b) == EmptyMap

\* The local configuration variables of generateCoreAddonsChart, by addon.
CoreConfigs(b) ==
    [a \in {"calico", "kube-dns", "kube-proxy", "metrics-server", "vpn-shoot", "node-exporter"} |->
        CASE a = "calico" -> CalicoConfig(b)
          [] a = "kube-dns" -> KubeDNSConfig(b)
          [] a = "kube-proxy" -> KubeProxyConfig(b)
          [] a = "metrics-server" -> MetricsServerConfig(b)
          [] a = "vpn-shoot" -> VpnShootConfig(b)
          [] OTHER -> NodeExporterConfig(b)]

\* Mutant: the metrics server is left out of the values.
CoreValues_NoMetricsServer(global, inj) ==
    Map("global" :> global
        @@ "kube-dns" :> inj["kube-dns"]
        @@ "kube-proxy" :> inj["kube-proxy"]
        @@ "vpn-shoot" :> inj["vpn-shoot"]
        @@ "calico" :> inj["calico"]
        @@ "monitoring" :> Map("node-exporter" :> inj["node-exporter"]))

\* The values generateCoreAddonsChart hands to the renderer.
CoreValues(global, inj) ==
    Map("global" :> global
        @@ "kube-dns" :> inj["kube-dns"]
        @@ "kube-proxy" :> inj["kube-proxy"]
        @@ "vpn-shoot" :> inj["vpn-shoot"]
        @@ "calico" :> inj["calico"]
        @@ "metrics-server" :> inj["metrics-server"]
        @@ "monitoring" :> Map("node-exporter" :> inj["node-exporter"]))

\* --------------------------------------------- optional configuration trees

\* Mutant: the first merge takes the base as the override, so that base values win.
NginxIngressConfig_BaseWins(base, shoot) ==
    IF shoot.NginxIngressEnabled
    THEN LET ranges == MergeMaps(
                 Map([controller |-> Map([service |-> Map([
                     loadBalancerSourceRanges |-> Leaf(shoot.LoadBalancerSourceRanges)])])]),
                 base)
         IN  IF shoot.UsedAsSeed
             THEN MergeMaps(ranges,
                      Map([controller |-> Map([resources |-> Map([limits |-> Map([
                          cpu |-> Leaf(Str("500m")), memory |-> Leaf(Str("1024Mi"))])])])]))
             ELSE ranges
    ELSE base

\* Mutant: the used-as-seed test stands outside the test of the ingress addon.
NginxIngressConfig_SeedAlone(base, shoot) ==
    LET ranges == IF shoot.NginxIngressEnabled
                  THEN MergeMaps(base,
                           Map([controller |-> Map([service |-> Map([
                               loadBalancerSourceRanges |-> Leaf(shoot.LoadBalancerSourceRanges)])])]))
                  ELSE base
    IN  IF shoot.UsedAsSeed
        THEN MergeMaps(ranges,
                 Map([controller |-> Map([resources |-> Map([limits |-> Map([
                     cpu |-> Leaf(Str("500m")), memory |-> Leaf(Str("1024Mi"))])])])]))
        ELSE ranges

\* The two conditional merges into the provider's ingress configuration.
NginxIngressConfig(base, shoot) ==
    IF shoot.NginxIngressEnabled
    THEN LET ranges == MergeMaps(base,
                 Map([controller |-> Map([service |-> Map([
                     loadBalancerSourceRanges |-> Leaf(shoot.LoadBalancerSourceRanges)])])]))
         IN  IF shoot.UsedAsSeed
             THEN MergeMaps(ranges,
                      Map([controller |-> Map([resources |-> Map([limits |-> Map([
                          cpu |-> Leaf(Str("500m")), memory |-> Leaf(Str("1024Mi"))])])])]))
             ELSE ranges
    ELSE base

\* The values generateOptionalAddonsChart hands to the renderer.
OptionalValues(cfg, inj) ==
    Map("cluster-autoscaler" :> cfg["cluster-autoscaler"]
        @@ "helm-tiller" :> inj["helm-tiller"]
        @@ "kube-lego" :> inj["kube-lego"]
        @@ "kube2iam" :> inj["kube2iam"]
        @@ "kubernetes-dashboard" :> inj["kubernetes-dashboard"]
        @@ "monocular" :> inj["monocular"]
        @@ "nginx-ingress" :> inj["nginx-ingress"])

\* The imageMap argument of each InjectImages call.
ImageMap(addon) ==
    CASE addon = "calico" -> "calico-node" :> "calico-node" @@ "calico-cni" :> "calico-cni" @@ "calico-typha" :> "calico-typha"
      [] addon = "kube-dns" -> "kube-dns" :> "kube-dns" @@ "kube-dns-dnsmasq" :> "kube-dns-dnsmasq"
                               @@ "kube-dns-sidecar" :> "kube-dns-sidecar"
                               @@ "kube-dns-autoscaler" :> "cluster-proportional-autoscaler"
      [] addon = "kube-proxy" -> "hyperkube" :> "hyperkube"
      [] addon = "monocular" -> "monocular-api" :> "monocular-api" @@ "monocular-ui" :> "monocular-ui" @@ "busybox" :> "busybox"
      [] addon = "nginx-ingress" -> "nginx-ingress-controller" :> "nginx-ingress-controller"
                                    @@ "ingress-default-backend" :> "ingress-default-backend"
      [] OTHER -> addon :> addon

\* ---------------------------------------------------------------- programs

\* The collaborator calls of each stage operation, in program order.
Step(op, arg) == [op |-> op, arg |-> arg]

CoreProgram ==
    << Step("Compose", "core"),
       Step("InjectImages", "calico"),
       Step("InjectImages", "kube-dns"),
       Step("InjectImages", "kube-proxy"),
       Step("InjectImages", "metrics-server"),
       Step("InjectImages", "vpn-shoot"),
       Step("InjectImages", "node-exporter"),
       Step("CreateSecret", "vpn-shoot"),
       Step("Render", "shoot-core") >>

\* Mutant: the cleanup runs before the composition.
OptionalProgram_CleanupFirst ==
    << Step("ListDeployments", "chart=heapster-0.1.1,origin=gardener"),
       Step("DeleteDeployment", "each"),
       Step("Generate", "cluster-autoscaler"),
       Step("Generate", "helm-tiller"),
       Step("Generate", "kube-lego"),
       Step("Generate", "kube2iam"),
       Step("Generate", "kubernetes-dashboard"),
       Step("Generate", "monocular"),
       Step("Generate", "nginx-ingress"),
       Step("InjectImages", "helm-tiller"),
       Step("InjectImages", "kube-lego"),
       Step("InjectImages", "kube2iam"),
       Step("InjectImages", "kubernetes-dashboard"),
       Step("InjectImages", "monocular"),
       Step("InjectImages", "nginx-ingress"),
       Step("Render", "shoot-addons") >>

OptionalProgram ==
    << Step("Generate", "cluster-autoscaler"),
       Step("Generate", "helm-tiller"),
       Step("Generate", "kube-lego"),
       Step("Generate", "kube2iam"),
       Step("Generate", "kubernetes-dashboard"),
       Step("Generate", "monocular"),
       Step("Generate", "nginx-ingress"),
       Step("InjectImages", "helm-tiller"),
       Step("InjectImages", "kube-lego"),
       Step("InjectImages", "kube2iam"),
       Step("InjectImages", "kubernetes-dashboard"),
       Step("InjectImages", "monocular"),
       Step("InjectImages", "nginx-ingress"),
       Step("ListDeployments", "chart=heapster-0.1.1,origin=gardener"),
       Step("DeleteDeployment", "each"),
       Step("Render", "shoot-addons") >>

AdmissionProgram ==
    << Step("Generate", "admission-controls"),
       Step("Render", "shoot-admission-controls") >>

Program(stg) ==
    CASE stg = "core" -> CoreProgram
      [] stg = "optional" -> OptionalProgram
      [] stg = "admission" -> AdmissionProgram
      [] OTHER -> << >>

\* The name argument of each Render call.
ReleaseName(stg) ==
    CASE stg = "core" -> "shoot-core"
      [] stg = "optional" -> "addons"
      [] OTHER -> "admission-controls"

\* Mutant: the error check after a call is missing.
ErrNotNil_Ignored(err) == FALSE

\* if err != nil
ErrNotNil(err) == err # NoErr

\* Mutant: the negation is lost; only a not-found error of a delete fails the stage.
DeleteFails_Inverted(err) == err # NoErr /\ IsNotFound(err)

\* Mutant: not-found is not told apart from the other delete errors.
DeleteFails_NoSwallow(err) == err # NoErr

\* Mutant: every delete error is swallowed.
DeleteFails_SwallowAll(err) == FALSE

\* err != nil && !apierrors.IsNotFound(err)
DeleteFails(err) == err # NoErr /\ ~IsNotFound(err)

\* Mutant: the error is wrapped with the name of the stage.
ReturnedErr_Tagged(stg, err) == [err EXCEPT !.tag = stg]

\* return nil, err
ReturnedErr(stg, err) == err

\* ------------------------------------------------------------ target cluster

\* metav1.NamespaceSystem
NamespaceSystem == "kube-system"
LegacyLabels == "chart=heapster-0.1.1,origin=gardener"

Deployment(ns, name, labels) == [ns |-> ns, name |-> name, labels |-> labels]
LegacyDeployments == {Deployment(NamespaceSystem, i, LegacyLabels) : i \in 1..MaxLegacy}
\* Deployments the selector or the namespace excludes.
OtherDeployments == {Deployment(NamespaceSystem, 0, "k8s-app=kube-dns"),
                     Deployment("default", 1, LegacyLabels)}

\* The items of ListDeployments(namespace, selector), by name.
ListedDeployments(deployments, ns, selector) ==
    SelectSeq([i \in 1..MaxLegacy |-> i],
              LAMBDA i : \E d \in deployments : d.ns = ns /\ d.labels = selector /\ d.name = i)

\* The deployments left by DeleteDeployment(namespace, name).
WithoutDeployment(deployments, ns, name) == {d \in deployments : ~(d.ns = ns /\ d.name = name)}

ExistsDeployment(deployments, ns, name) == \E d \in deployments : d.ns = ns /\ d.name = name

\* -------------------------------------------------------------------- state

VARIABLES
    phase,      \* Gathering, Running (a stage operation), Returned (its bundle awaits apply), Done, Failed,
                \* Panicked (the stage operation terminated abnormally)
    stage,      \* the stage operation running or last run: none, core, optional, admission
    pc,         \* the position of the stage operation in its program
    Secrets,    \* b.Secrets: secret name -> [Data]
    CheckSums,  \* b.CheckSums: secret name -> checksum
    Shoot,      \* b.Shoot: the cluster specification
    configs,    \* the stage operation's configuration locals, by addon
    injected,   \* the stage operation's InjectImages results, by addon
    items,      \* heapsterDeployments.Items (names)
    idx,        \* the position of the delete loop in items
    ret,        \* what the stage operation returned: [chart, err]
    cluster,    \* the shoot cluster: [secrets, deployments]
    applied,    \* the stages whose bundle the driver applied in this cycle
    calls,      \* history: the collaborator calls of this invocation, with their outcome
    baseline,   \* history: the cluster as it would be without this invocation's writes
    rotations,  \* history: the secret rotations so far
    lastCore,   \* history: context and values of the last core render that succeeded
    cleaned,    \* history: a cleanup pass has completed without error
    cleanedBefore, \* history: ... before this invocation began
    lastValues, \* history: the values of the last optional and admission render that succeeded
    peer        \* a second, concurrent invocation of the optional stage: [pc, items, idx, calls]

vars == << phase, stage, pc, Secrets, CheckSums, Shoot, configs, injected, items, idx, ret,
           cluster, applied, calls, baseline, rotations, lastCore, cleaned, cleanedBefore,
           lastValues, peer >>

inputs == << Secrets, CheckSums, Shoot >>
locals == << configs, injected, items, idx >>
history == << rotations, lastCore, cleaned, cleanedBefore, lastValues >>

NoLocals == [k \in {} |-> EmptyMap]
NoRun == [run |-> FALSE]
NilTree == Leaf(Nil)
NoValues == [stg \in {"optional", "admission"} |-> NoRun]
\* No second invocation runs.
NoPeer == [pc |-> "off", items |-> << >>, idx |-> 1, calls |-> << >>]

B == Ctx(Secrets, CheckSums, Shoot)
Cur == Program(stage)[pc]
Running(op) == phase = "Running" /\ pc \in 1..Len(Program(stage)) /\ Cur.op = op
Outcomes == {NoErr} \cup CollabErrors
Call(op, arg, err) == [op |-> op, arg |-> arg, out |-> err]

\* The for statement over heapsterDeployments.Items is not entered when there are none.
NextPc(stg, p, its) ==
    IF p <= Len(Program(stg)) /\ Program(stg)[p].op = "DeleteDeployment" /\ its = << >>
    THEN p + 1
    ELSE p

InitialSecrets(withDH) ==
    [n \in (IF withDH THEN SecretNames ELSE RequiredSecrets) |-> GenerateSecret(n, 1)]

Init ==
    /\ phase = "Gathering"
    /\ stage = "none"
    /\ pc = 1
    /\ \E withDH \in BOOLEAN : Secrets = InitialSecrets(withDH)
    /\ CheckSums = ComputeCheckSums(Secrets)
    /\ Shoot \in Shoots
    /\ configs = NoLocals
    /\ injected = NoLocals
    /\ items = << >>
    /\ idx = 1
    /\ ret = [chart |-> NilChart, err |-> NoErr]
    /\ \E legacy \in SUBSET LegacyDeployments :
            cluster = [secrets |-> [k \in {} |-> 0], deployments |-> legacy \cup OtherDeployments]
    /\ applied = << >>
    /\ calls = << >>
    /\ baseline = cluster
    /\ rotations = 0
    /\ lastCore = NoRun
    /\ cleaned = FALSE
    /\ cleanedBefore = FALSE
    /\ lastValues = NoValues
    /\ peer = NoPeer

\* ------------------------------------------------------- the stage operations

\* Mutant: a failed call is issued again.
ReturnErr_Retry(err) == UNCHANGED << phase, ret, pc >>

\* return nil, err
ReturnErr(err) ==
    /\ phase' = "Failed"
    /\ ret' = [chart |-> NilChart, err |-> ReturnedErr(stage, err)]
    /\ pc' = pc

\* Go on with the next statement.
Proceed(its) ==
    /\ pc' = NextPc(stage, pc + 1, its)
    /\ UNCHANGED << phase, ret >>

\* b.Secrets[name].Data for the required names a statement reads, with no test
\* of their presence. For an absent name the element type of b.Secrets,
\* declared outside this file, decides: a nil *Secret is dereferenced (the
\* goroutine panics), or the zero Secret is read (no data).
LookupOutcomes(secrets, names) ==
    IF names \subseteq DOMAIN secrets THEN {"value"} ELSE {"value", "panic"}

\* The secrets whose Data the var block reads; vpnShootSecret.Data is read by
\* the CreateSecret statement.
ComposeReads == {"kube-proxy", "ca-metrics-server", "metrics-server", "vpn-seed-tlsauth"}

\* Mutant: an absent Diffie-Hellman secret is entered into b.Secrets as an empty one.
ComposeCore_StoresSecret ==
    /\ Running("Compose")
    /\ \E outcome \in LookupOutcomes(Secrets, ComposeReads) :
        IF outcome = "panic"
        THEN /\ phase' = "Panicked"
             /\ UNCHANGED << pc, ret, configs >>
        ELSE /\ configs' = ("global" :> GlobalConfig(B)) @@ CoreConfigs(B)
             /\ Proceed(items)
    /\ Secrets' = Secrets @@ (DHSecret :> NilSecret)
    /\ UNCHANGED << stage, CheckSums, Shoot, injected, items, idx, cluster, applied, calls,
                    baseline, history, peer >>

\* The var block and the two optional fields of generateCoreAddonsChart.
ComposeCore ==
    /\ Running("Compose")
    /\ \E outcome \in LookupOutcomes(Secrets, ComposeReads) :
        IF outcome = "panic"
        THEN /\ phase' = "Panicked"
             /\ UNCHANGED << pc, ret, configs >>
        ELSE /\ configs' = ("global" :> GlobalConfig(B)) @@ CoreConfigs(B)
             /\ Proceed(items)
    /\ UNCHANGED << stage, inputs, injected, items, idx, cluster, applied, calls, baseline, history, peer >>

\* x, err := b.Botanist.InjectImages(xConfig, version, images)
InjectImagesCall ==
    /\ Running("InjectImages")
    /\ \E err \in Outcomes :
        /\ calls' = Append(calls, Call("InjectImages", Cur.arg, err))
        /\ IF ErrNotNil(err)
           THEN ReturnErr(err) /\ UNCHANGED injected
           ELSE /\ injected' = (Cur.arg :> (IF err = NoErr
                                            THEN InjectImages(configs[Cur.arg], K8sVersion, ImageMap(Cur.arg))
                                            ELSE NilTree)) @@ injected
                /\ Proceed(items)
    /\ UNCHANGED << stage, inputs, configs, items, idx, cluster, applied, baseline, history, peer >>

\* xConfig, err := b.Botanist.GenerateXConfig(), with the ingress merges after the last one
GenerateConfigCall ==
    /\ Running("Generate")
    /\ \E err \in Outcomes :
        /\ calls' = Append(calls, Call("Generate", Cur.arg, err))
        /\ IF ErrNotNil(err)
           THEN ReturnErr(err) /\ UNCHANGED configs
           ELSE LET val == IF err = NoErr THEN GeneratedConfig(Cur.arg, Shoot) ELSE EmptyMap
                IN  /\ configs' = (Cur.arg :> (IF Cur.arg = "nginx-ingress"
                                               THEN NginxIngressConfig(val, Shoot)
                                               ELSE val)) @@ configs
                    /\ Proceed(items)
    /\ UNCHANGED << stage, inputs, injected, items, idx, cluster, applied, baseline, history, peer >>

\* b.K8sShootClient.CreateSecret(kube-system, "vpn-shoot", Opaque, vpnShootSecret.Data, true)
CreateSecretCall ==
    /\ Running("CreateSecret")
    /\ \E outcome \in LookupOutcomes(Secrets, {"vpn-shoot"}) :
        IF outcome = "panic"
        THEN /\ phase' = "Panicked"
             /\ UNCHANGED << pc, ret, calls, cluster >>
        ELSE \E err \in Outcomes :
                /\ calls' = Append(calls, Call("CreateSecret", Cur.arg, err))
                /\ cluster' = IF err = NoErr
                              THEN [cluster EXCEPT !.secrets =
                                        (Cur.arg :> [ns |-> NamespaceSystem, type |-> "Opaque",
                                                     data |-> SecretOf(Secrets, "vpn-shoot").Data]) @@ @]
                              ELSE cluster
                /\ IF ErrNotNil(err) THEN ReturnErr(err) ELSE Proceed(items)
    /\ UNCHANGED << stage, inputs, locals, applied, baseline, history, peer >>

\* heapsterDeployments, err := b.K8sShootClient.ListDeployments(kube-system, selector)
ListDeploymentsCall ==
    /\ Running("ListDeployments")
    /\ \E err \in Outcomes :
        LET listed == IF err = NoErr
                      THEN ListedDeployments(cluster.deployments, NamespaceSystem, Cur.arg)
                      ELSE << >>
        IN  /\ calls' = Append(calls, Call("ListDeployments", Cur.arg, err))
            /\ IF ErrNotNil(err)
               THEN ReturnErr(err) /\ UNCHANGED << items, idx, cleaned >>
               ELSE /\ items' = listed
                    /\ idx' = 1
                    /\ Proceed(listed)
                    /\ cleaned' = (cleaned \/ listed = << >>)
    /\ UNCHANGED << stage, inputs, configs, injected, cluster, applied, baseline,
                    rotations, lastCore, cleanedBefore, lastValues, peer >>

\* Mutant: the delete names the default namespace instead of the system namespace.
DeleteDeploymentCall_DefaultNamespace ==
    /\ Running("DeleteDeployment")
    /\ idx \in 1..Len(items)
    /\ LET name == items[idx]
           there == ExistsDeployment(cluster.deployments, "default", name)
       IN  \E err \in (IF there THEN {NoErr, CollabErr("Other")} ELSE CollabErrors) :
            /\ calls' = Append(calls, Call("DeleteDeployment", name, err))
            /\ cluster' = IF err = NoErr
                          THEN [cluster EXCEPT !.deployments = WithoutDeployment(@, "default", name)]
                          ELSE cluster
            /\ IF DeleteFails(err)
               THEN ReturnErr(err) /\ UNCHANGED << idx, cleaned >>
               ELSE IF idx < Len(items)
                    THEN idx' = idx + 1 /\ UNCHANGED << pc, phase, ret, cleaned >>
                    ELSE idx' = idx + 1 /\ Proceed(items) /\ cleaned' = TRUE
    /\ UNCHANGED << stage, inputs, configs, injected, items, applied, baseline,
                    rotations, lastCore, cleanedBefore, lastValues, peer >>

\* One iteration of the loop: b.K8sShootClient.DeleteDeployment(kube-system, deployment.Name)
DeleteDeploymentCall ==
    /\ Running("DeleteDeployment")
    /\ idx \in 1..Len(items)
    /\ LET name == items[idx]
           there == ExistsDeployment(cluster.deployments, NamespaceSystem, name)
       IN  \E err \in (IF there THEN {NoErr, CollabErr("Other")} ELSE CollabErrors) :
            /\ calls' = Append(calls, Call("DeleteDeployment", name, err))
            /\ cluster' = IF err = NoErr
                          THEN [cluster EXCEPT !.deployments = WithoutDeployment(@, NamespaceSystem, name)]
                          ELSE cluster
            /\ IF DeleteFails(err)
               THEN ReturnErr(err) /\ UNCHANGED << idx, cleaned >>
               ELSE IF idx < Len(items)
                    THEN idx' = idx + 1 /\ UNCHANGED << pc, phase, ret, cleaned >>
                    ELSE idx' = idx + 1 /\ Proceed(items) /\ cleaned' = TRUE
    /\ UNCHANGED << stage, inputs, configs, injected, items, applied, baseline,
                    rotations, lastCore, cleanedBefore, lastValues, peer >>

\* The values of the stage's Render call.
RenderValues(stg, cfg, inj) ==
    CASE stg = "core" -> CoreValues(cfg["global"], inj)
      [] stg = "optional" -> OptionalValues(cfg, inj)
      [] OTHER -> cfg["admission-controls"]

\* return b.ChartShootRenderer.Render(chart path, name, kube-system, values)
RenderCall ==
    /\ Running("Render")
    /\ \E err \in Outcomes :
        LET values == RenderValues(stage, configs, injected)
            chart == IF err = NoErr
                     THEN RenderChart(<< "charts", Cur.arg >>, ReleaseName(stage), NamespaceSystem, values)
                     ELSE NilChart
        IN  /\ calls' = Append(calls, Call("Render", Cur.arg, err))
            /\ ret' = [chart |-> chart, err |-> ReturnedErr(stage, err)]
            /\ phase' = IF err = NoErr THEN "Returned" ELSE "Failed"
            /\ lastCore' = IF err = NoErr /\ stage = "core"
                           THEN [run |-> TRUE, b |-> B, values |-> values]
                           ELSE lastCore
            /\ lastValues' = IF err = NoErr /\ stage \in DOMAIN lastValues
                             THEN [lastValues EXCEPT ![stage] = [run |-> TRUE, values |-> values]]
                             ELSE lastValues
    /\ UNCHANGED << stage, pc, inputs, locals, cluster, applied, baseline,
                    rotations, cleaned, cleanedBefore, peer >>

\* ------------------------------------------------------------------ driver

\* Mutant: the optional bundle is handled before the core bundle.
NextStage_OptionalFirst(stg) ==
    CASE stg = "none" -> "optional"
      [] stg = "optional" -> "core"
      [] stg = "core" -> "admission"
      [] OTHER -> "done"

\* The stage after stg in a cycle; "done" after the last.
NextStage(stg) ==
    CASE stg = "none" -> "core"
      [] stg = "core" -> "optional"
      [] stg = "optional" -> "admission"
      [] OTHER -> "done"

\* The driver calls the stage operation stg.
EnterStage(stg) ==
    /\ phase' = "Running"
    /\ stage' = stg
    /\ pc' = 1
    /\ configs' = NoLocals
    /\ injected' = NoLocals
    /\ items' = << >>
    /\ idx' = 1
    /\ ret' = [chart |-> NilChart, err |-> NoErr]
    /\ calls' = << >>
    /\ baseline' = cluster
    /\ cleanedBefore' = cleaned

\* The content version of a secret of the bundle.
ContentVersion(secret) == LET k == CHOOSE k \in DOMAIN secret.Data : TRUE IN secret.Data[k][4]

\* Gathering: the credential manager supplies the secret bundle and its
\* checksums, rotating a secret or not, or fails.
Gather ==
    /\ phase = "Gathering"
    /\ \/ /\ \/ UNCHANGED << Secrets, CheckSums, rotations >>
             \/ /\ rotations < MaxRotations
                /\ \E n \in DOMAIN Secrets :
                      Secrets' = [Secrets EXCEPT ![n] = GenerateSecret(n, ContentVersion(@) + 1)]
                /\ CheckSums' = ComputeCheckSums(Secrets')
                /\ rotations' = rotations + 1
          /\ EnterStage(NextStage("none"))
          /\ UNCHANGED << Shoot, cluster, applied, lastCore, cleaned, lastValues, peer >>
       \/ /\ phase' = "Failed"
          /\ UNCHANGED << stage, pc, inputs, locals, ret, cluster, applied, calls, baseline, history, peer >>

\* The driver applies the bundle the stage returned and goes on to the next stage.
Apply ==
    /\ phase = "Returned"
    /\ \/ /\ applied' = Append(applied, [stage |-> stage, bundle |-> ret.chart])
          /\ IF NextStage(stage) = "done"
             THEN /\ phase' = "Done"
                  /\ UNCHANGED << stage, pc, locals, ret, calls, baseline, cleanedBefore >>
             ELSE EnterStage(NextStage(stage))
          /\ UNCHANGED << inputs, cluster, rotations, lastCore, cleaned, lastValues, peer >>
       \/ /\ phase' = "Failed"
          /\ UNCHANGED << stage, pc, inputs, locals, ret, cluster, applied, calls, baseline, history, peer >>

\* The control loop triggers the next cycle.
StartCycle ==
    /\ phase \in {"Done", "Failed"}
    /\ phase' = "Gathering"
    /\ stage' = "none"
    /\ pc' = 1
    /\ configs' = NoLocals
    /\ injected' = NoLocals
    /\ items' = << >>
    /\ idx' = 1
    /\ ret' = [chart |-> NilChart, err |-> NoErr]
    /\ applied' = << >>
    /\ calls' = << >>
    /\ baseline' = cluster
    /\ UNCHANGED << inputs, cluster, history, peer >>

\* Another actor removes a listed legacy deployment while the cleanup runs. (A
\* removal at any other time leaves what an initial state without that
\* deployment gives.)
OtherActorDelete ==
    /\ Running("DeleteDeployment")
    /\ \E d \in cluster.deployments \cap LegacyDeployments :
        /\ cluster' = [cluster EXCEPT !.deployments = @ \ {d}]
        /\ baseline' = [baseline EXCEPT !.deployments = @ \ {d}]
    /\ UNCHANGED << phase, stage, pc, inputs, locals, ret, applied, calls, history, peer >>

Next ==
    \/ Gather
    \/ ComposeCore
    \/ InjectImagesCall
    \/ GenerateConfigCall
    \/ CreateSecretCall
    \/ ListDeploymentsCall
    \/ DeleteDeploymentCall
    \/ RenderCall
    \/ Apply
    \/ StartCycle
    \/ OtherActorDelete

Spec == Init /\ [][Next]_vars

\* The driver state of the specification's state machine.
State ==
    CASE phase = "Gathering" -> "Gathering"
      [] phase = "Done" -> "Done"
      [] phase \in {"Failed", "Panicked"} -> "Failed"
      [] phase = "Returned" -> (CASE stage = "core" -> "ApplyCore"
                                  [] stage = "optional" -> "ApplyOptional"
                                  [] OTHER -> "ApplyAdmission")
      [] OTHER -> (CASE stage = "core" -> IF Cur.op = "Render" THEN "RenderCore" ELSE "ComposeCore"
                     [] stage = "optional" -> IF Cur.op = "Render" THEN "RenderOptional"
                                              ELSE IF Cur.op \in {"ListDeployments", "DeleteDeployment"}
                                                   THEN "Cleanup" ELSE "ComposeOptional"
                     [] OTHER -> IF Cur.op = "Render" THEN "RenderAdmission" ELSE "ComposeAdmission")

\* ------------------------------------------------------------------ claims

LastCall == calls[Len(calls)]
\* A call whose error fails the stage: any error but a delete's not-found.
FailingCall(c) == c.out # NoErr /\ ~(c.op = "DeleteDeployment" /\ c.out.kind = "NotFound")
StageFailed == phase = "Failed" /\ ret.err # NoErr

\* C1: in each stage operation, a collaborator call that returns an error (any
\* but a delete's not-found) is the last call of the invocation, the stage is
\* Failed and no rendered bundle is returned.
C1_StopAtFirstError ==
    \A i \in 1..Len(calls) :
        FailingCall(calls[i]) =>
            /\ i = Len(calls)
            /\ phase = "Failed"
            /\ ret.chart = NilChart
            /\ ret.err # NoErr

\* C1 witness: the optional stage failed at the legacy-deployment list, after
\* its thirteen compose calls.
C1_Witness ==
    /\ phase = "Failed"
    /\ stage = "optional"
    /\ Len(calls) = 14
    /\ LastCall.op = "ListDeployments"
    /\ FailingCall(LastCall)

\* C2: whenever a stage operation ends in failure, the target cluster (its
\* secrets and deployments) is what it was when the stage began, but for what
\* other actors did.
C2_NoPartialCommit == StageFailed => cluster = baseline

\* The legacy-deployment list of this invocation succeeded.
Listed == \E i \in 1..Len(calls) : calls[i].op = "ListDeployments" /\ calls[i].out = NoErr
HasCall(op) == \E i \in 1..Len(calls) : calls[i].op = op

\* C3: a delete that reports not-found does not fail the stage: the next call
\* is the delete of the next listed deployment or the render; a list error or
\* another delete error fails the stage with no render; a not-found of any
\* other call fails the stage.
C3_NotFoundSwallowedInCleanupOnly ==
    \A i \in 1..Len(calls) :
        LET c == calls[i] IN
        /\ (c.op = "DeleteDeployment" /\ c.out \in {NoErr, CollabErr("NotFound")}) =>
                IF i < Len(calls)
                THEN calls[i + 1].op \in {"DeleteDeployment", "Render"}
                ELSE /\ phase = "Running"
                     /\ ret.err = NoErr
                     /\ IF idx <= Len(items) THEN Cur.op = "DeleteDeployment" ELSE Cur.op = "Render"
        /\ (c.op = "DeleteDeployment" /\ c.out = CollabErr("Other")) => StageFailed /\ ~HasCall("Render")
        /\ (c.op = "ListDeployments" /\ c.out # NoErr) => StageFailed /\ ~HasCall("Render")
        /\ (c.op # "DeleteDeployment" /\ c.out = CollabErr("NotFound")) => StageFailed /\ i = Len(calls)

\* C3 witness: a delete reported not-found, the loop deleted the next listed
\* deployment and the stage rendered.
C3_Witness ==
    /\ stage = "optional"
    /\ phase = "Returned"
    /\ \E i \in 1..(Len(calls) - 1) :
            /\ calls[i].op = "DeleteDeployment"
            /\ calls[i].out = CollabErr("NotFound")
            /\ calls[i + 1].op = "DeleteDeployment"

\* The deployments of the system namespace the legacy selector matches.
LegacyLeft == {d \in cluster.deployments : d.ns = NamespaceSystem /\ d.labels = LegacyLabels}

\* C4: once a cleanup pass has completed without error, no deployment of the
\* system namespace matches the legacy selector; a later pass issues no delete
\* and, its list answered, lists nothing and goes on to render (the stage can
\* then fail at the render only).
C4_CleanupIdempotent ==
    /\ cleaned => LegacyLeft = {}
    /\ (cleanedBefore /\ stage = "optional") =>
            /\ ~HasCall("DeleteDeployment")
            /\ Listed => /\ items = << >>
                         /\ phase = "Running" => Cur.op = "Render"
                         /\ StageFailed => LastCall.op = "Render"

\* C4 witness: a later pass, after a completed one, listed nothing and the
\* stage returned its bundle.
C4_Witness ==
    /\ cleanedBefore
    /\ stage = "optional"
    /\ phase = "Returned"
    /\ Listed
    /\ ~HasCall("DeleteDeployment")

\* The compose calls of the optional stage, in the order of the claim.
OptionalComposeOrder ==
    << << "Generate", "cluster-autoscaler" >>, << "Generate", "helm-tiller" >>,
       << "Generate", "kube-lego" >>, << "Generate", "kube2iam" >>,
       << "Generate", "kubernetes-dashboard" >>, << "Generate", "monocular" >>,
       << "Generate", "nginx-ingress" >>,
       << "InjectImages", "helm-tiller" >>, << "InjectImages", "kube-lego" >>,
       << "InjectImages", "kube2iam" >>, << "InjectImages", "kubernetes-dashboard" >>,
       << "InjectImages", "monocular" >>, << "InjectImages", "nginx-ingress" >> >>

\* The i-th call of an optional stage that listed `items`.
ExpectedOptionalCall(i) ==
    IF i <= 13 THEN OptionalComposeOrder[i]
    ELSE IF i = 14 THEN << "ListDeployments", LegacyLabels >>
    ELSE IF i <= 14 + Len(items) THEN << "DeleteDeployment", items[i - 14] >>
    ELSE << "Render", "shoot-addons" >>

\* C5: the calls of the optional stage are, in this order, the seven
\* generators, the six image resolutions, the list, one delete per listed
\* deployment and the render, each issued only after every earlier one
\* succeeded (or, a delete, reported not-found); the list follows the
\* composition whatever the specification enables.
C5_OptionalOrder ==
    stage = "optional" =>
        /\ Len(calls) <= 15 + Len(items)
        /\ \A i \in 1..Len(calls) :
                /\ calls[i].op = ExpectedOptionalCall(i)[1]
                /\ calls[i].arg = ExpectedOptionalCall(i)[2]
                /\ i < Len(calls) => ~FailingCall(calls[i])
        /\ (phase = "Running" /\ Len(calls) = 13) => Cur.op = "ListDeployments"
        /\ (phase = "Running" /\ Cur.op = "Render") => Len(calls) = 14 + Len(items)

\* C5 witness: with the ingress addon disabled, the stage listed two legacy
\* deployments, deleted both and rendered.
C5_Witness ==
    /\ stage = "optional"
    /\ phase = "Returned"
    /\ ~Shoot.NginxIngressEnabled
    /\ Len(items) = 2
    /\ Len(calls) = 17

AppliedStages == [i \in 1..Len(applied) |-> applied[i].stage]
InStage(stg) == stage = stg /\ phase \in {"Running", "Returned"}

C6_Order ==
    /\ InStage("core") => AppliedStages = << >>
    /\ InStage("optional") => AppliedStages = << "core" >>
    /\ InStage("admission") => AppliedStages = << "core", "optional" >>
    /\ phase = "Done" => AppliedStages = << "core", "optional", "admission" >>
    /\ \A i \in 1..Len(applied) :
            /\ applied[i].bundle # NilChart
            /\ applied[i].bundle.name = ReleaseName(applied[i].stage)

\* C6: in a cycle the optional stage runs only once the core bundle has been
\* rendered and applied, the admission-control stage only once the optional
\* bundle has been applied, Done is reached only with the three bundles
\* applied in that order, and nothing but the start of the next cycle leaves
\* Failed.
C6_StageOrder ==
    /\ [] C6_Order
    /\ [][phase = "Failed" => phase' \in {"Failed", "Gathering"}]_vars

\* C6 witness: a cycle that applied its three bundles.
C6_Witness == phase = "Done" /\ Len(applied) = 3

\* C7 as stated: the error a failed stage returns is the failing
\* collaborator's and carries the name of the stage.
C7_UnmodifiedAndTagged ==
    StageFailed => /\ ret.err.kind = LastCall.out.kind
                   /\ ret.err.tag = stage

\* C7 amended: the error a failed stage returns is the value the failing
\* collaborator produced, with nothing added.
C7_Unmodified ==
    StageFailed => /\ calls # << >>
                   /\ ret.err = LastCall.out
                   /\ ret.err \in CollabErrors

\* C7 witness: the optional stage failed at the delete of a deployment and
\* returned that error.
C7_Witness ==
    /\ StageFailed
    /\ stage = "optional"
    /\ LastCall.op = "DeleteDeployment"
    /\ ret.err = CollabErr("Other")

\* C8: in one invocation no call is issued twice: at most one secret creation,
\* one list, one render, one delete per deployment, one resolution and one
\* generation per addon.
C8_NoRetry ==
    \A i, j \in 1..Len(calls) :
        (i < j /\ calls[i].op = calls[j].op) => calls[i].arg # calls[j].arg

\* C8 witness: the core stage failed at the secret creation, its seventh call.
C8_Witness ==
    /\ StageFailed
    /\ stage = "core"
    /\ LastCall.op = "CreateSecret"
    /\ Len(calls) = 7

\* The secrets whose data the configuration of a core addon takes.
SecretsReadBy(addon, secrets) ==
    CASE addon = "kube-proxy" -> {"kube-proxy"}
      [] addon = "vpn-shoot" -> {"vpn-shoot", "vpn-seed-tlsauth"} \cup ({DHSecret} \cap DOMAIN secrets)
      [] addon = "metrics-server" -> {"ca-metrics-server", "metrics-server"}
      [] OTHER -> {}

\* The values of the restart annotations of a configuration.
AnnotationValues(cfg) ==
    IF Has(cfg, "podAnnotations")
    THEN {cfg.val["podAnnotations"].val[k].val : k \in Keys(cfg.val["podAnnotations"])}
    ELSE {}

\* C9: the podAnnotations of every core addon hold the checksum of every
\* secret the addon's configuration takes data from.
C9_ChecksumsEmbedded ==
    (stage = "core" /\ DOMAIN configs # {}) =>
        \A a \in {"kube-proxy", "vpn-shoot", "metrics-server"} :
            \A n \in SecretsReadBy(a, Secrets) : CheckSums[n] \in AnnotationValues(configs[a])

\* Two contexts that differ in the content and checksum of secret n alone.
DifferOnlyIn(b1, b2, n) ==
    /\ b1.Shoot = b2.Shoot
    /\ DOMAIN b1.Secrets = DOMAIN b2.Secrets
    /\ n \in DOMAIN b1.Secrets
    /\ b1.Secrets[n] # b2.Secrets[n]
    /\ b1.CheckSums[n] # b2.CheckSums[n]
    /\ \A m \in DOMAIN b1.Secrets \ {n} :
            b1.Secrets[m] = b2.Secrets[m] /\ b1.CheckSums[m] = b2.CheckSums[m]

\* The core addon that depends on a secret.
DependentAddon(n) ==
    CASE n = "kube-proxy" -> "kube-proxy"
      [] n \in {"ca-metrics-server", "metrics-server"} -> "metrics-server"
      [] OTHER -> "vpn-shoot"

\* C10: of two core renders whose contexts differ in one secret alone, the
\* restart annotations of the addon that depends on the secret differ and the
\* configuration of every other addon is the same.
C10_ChecksumPropagation ==
    [][\A n \in SecretNames :
          (lastCore.run /\ lastCore'.run /\ DifferOnlyIn(lastCore.b, lastCore'.b, n)) =>
              LET v1 == lastCore.values.val
                  v2 == lastCore'.values.val
              IN  /\ AnnotationValues(v1[DependentAddon(n)]) # AnnotationValues(v2[DependentAddon(n)])
                  /\ \A a \in DOMAIN v1 \ {DependentAddon(n)} : v1[a] = v2[a]]_vars

\* ------------------------------------------- further initial states, specifications

\* The state before the first cycle for the given bundle, specification,
\* legacy deployments and second invocation.
InitOf(secrets, shoot, legacy, second) ==
    /\ phase = "Gathering"
    /\ stage = "none"
    /\ pc = 1
    /\ Secrets = secrets
    /\ CheckSums = ComputeCheckSums(Secrets)
    /\ Shoot = shoot
    /\ configs = NoLocals
    /\ injected = NoLocals
    /\ items = << >>
    /\ idx = 1
    /\ ret = [chart |-> NilChart, err |-> NoErr]
    /\ cluster = [secrets |-> [k \in {} |-> 0], deployments |-> legacy \cup OtherDeployments]
    /\ applied = << >>
    /\ calls = << >>
    /\ baseline = cluster
    /\ rotations = 0
    /\ lastCore = NoRun
    /\ cleaned = FALSE
    /\ cleanedBefore = FALSE
    /\ lastValues = NoValues
    /\ peer = second

\* Cycles for every combination of the optional inputs of the core stage.
InitCore ==
    \E withDH \in BOOLEAN, proxy \in KubeProxyConfigs :
        InitOf(InitialSecrets(withDH), [DefaultShoot EXCEPT !.KubeProxy = proxy], LegacyDeployments, NoPeer)

SpecCore == InitCore /\ [][Next]_vars

\* Cycles for every combination of the provider and the ingress fields of the
\* cluster specification.
IngressShoots == {s \in AllShoots : s.KubeProxy = NilKubeProxy}
InitIngress == \E shoot \in IngressShoots : InitOf(InitialSecrets(FALSE), shoot, LegacyDeployments, NoPeer)

SpecIngress == InitIngress /\ [][Next]_vars

\* ----------------------------------------------------- the ingress composition

\* Whether the tree has a node at the path of keys.
RECURSIVE HasPath(_, _)
HasPath(t, path) ==
    \/ path = << >>
    \/ /\ Has(t, Head(path))
       /\ HasPath(t.val[Head(path)], Tail(path))

\* The node of the tree at a path it has.
RECURSIVE Get(_, _)
Get(t, path) == IF path = << >> THEN t ELSE Get(t.val[Head(path)], Tail(path))

\* The paths of the leaves of the tree.
RECURSIVE LeafPaths(_)
LeafPaths(t) ==
    IF IsMap(t)
    THEN UNION {{<< k >> \o p : p \in LeafPaths(t.val[k])} : k \in Keys(t)}
    ELSE {<< >>}

SourceRangesPath == << "controller", "service", "loadBalancerSourceRanges" >>
LimitsPath == << "controller", "resources", "limits" >>
NoSourceRanges == <<"list", << >> >>

\* The optional stage has composed the ingress configuration.
IngressComposed == stage = "optional" /\ "nginx-ingress" \in DOMAIN configs
IngressConfig == configs["nginx-ingress"]
\* ... and image resolution has been given it.
IngressInjected ==
    /\ IngressComposed
    /\ \E i \in 1..Len(calls) : calls[i].op = "InjectImages" /\ calls[i].arg = "nginx-ingress"

\* C11: when the specification sets no load-balancer source ranges, the ingress
\* configuration handed to image resolution is the provider's base
\* configuration, with no loadBalancerSourceRanges key the base does not have.
C11_NoRangesNoMerge ==
    (IngressComposed /\ Shoot.LoadBalancerSourceRanges = NoSourceRanges) =>
        /\ IngressConfig = NginxIngressBase(Shoot)
        /\ (HasPath(IngressConfig, SourceRangesPath) => HasPath(NginxIngressBase(Shoot), SourceRangesPath))

IngressLimits == Map([cpu |-> Leaf(Str("500m")), memory |-> Leaf(Str("1024Mi"))])
\* The paths the two overrides write.
OverridePaths == {SourceRangesPath, LimitsPath \o << "cpu" >>, LimitsPath \o << "memory" >>}

\* C12: when the ingress merges are applied, loadBalancerSourceRanges is the
\* specification's value (not the base's, not a concatenation), every leaf of
\* the provider's base configuration the overrides do not write keeps its base
\* value, and the limits merge keeps both.
C12_MergePrecedence ==
    (IngressComposed /\ Shoot.NginxIngressEnabled) =>
        LET base == NginxIngressBase(Shoot)
        IN  /\ HasPath(IngressConfig, SourceRangesPath)
            /\ Get(IngressConfig, SourceRangesPath) = Leaf(Shoot.LoadBalancerSourceRanges)
            /\ \A p \in LeafPaths(base) \ OverridePaths :
                    HasPath(IngressConfig, p) /\ Get(IngressConfig, p) = Get(base, p)
            /\ (Shoot.UsedAsSeed =>
                    HasPath(IngressConfig, LimitsPath) /\ Get(IngressConfig, LimitsPath) = IngressLimits)

\* Both merges have been applied to a base that sets source ranges and other
\* keys, and image resolution has been given the result.
C12_Witness ==
    /\ IngressInjected
    /\ Shoot.NginxIngressEnabled /\ Shoot.UsedAsSeed
    /\ Shoot.LoadBalancerSourceRanges # NoSourceRanges
    /\ HasPath(NginxIngressBase(Shoot), SourceRangesPath)
    /\ LeafPaths(NginxIngressBase(Shoot)) \ OverridePaths # {}

\* ------------------------------------------------------ the core composition

\* The core stage has composed its configurations.
CoreComposed == stage = "core" /\ "vpn-shoot" \in DOMAIN configs
\* The tree without the key k.
Without(t, k) == Map([x \in Keys(t) \ {k} |-> t.val[x]])

\* C13: with the Diffie-Hellman secret absent and/or no kube-proxy section the
\* core stage composes and goes on to its first call; the VPN configuration has
\* diffieHellmanKey exactly when the secret is there (then its dh2048.pem
\* value), the proxy configuration has featureGates exactly when the section is
\* there (then its value), and the other fields do not depend on either.
C13_OptionalInputs ==
    /\ (stage = "core" /\ calls = << >>) => phase = "Running"
    /\ CoreComposed =>
        LET vpn == configs["vpn-shoot"]
            proxy == configs["kube-proxy"]
        IN  /\ Has(vpn, "diffieHellmanKey") <=> DHSecret \in DOMAIN Secrets
            /\ Has(vpn, "diffieHellmanKey") =>
                    vpn.val["diffieHellmanKey"] = Leaf(Secrets[DHSecret].Data["dh2048.pem"])
            /\ Without(vpn, "diffieHellmanKey") =
                    Map([podNetwork |-> Leaf(Shoot.PodNetwork),
                         serviceNetwork |-> Leaf(Shoot.ServiceNetwork),
                         nodeNetwork |-> Leaf(Shoot.NodeNetwork),
                         tlsAuth |-> Leaf(Secrets["vpn-seed-tlsauth"].Data["vpn.tlsauth"]),
                         podAnnotations |-> Map("checksum/secret-vpn-shoot" :> Leaf(CheckSums["vpn-shoot"]))])
            /\ Has(proxy, "featureGates") <=> ~Shoot.KubeProxy.isNil
            /\ Has(proxy, "featureGates") => proxy.val["featureGates"] = Leaf(Shoot.KubeProxy.FeatureGates)
            /\ Without(proxy, "featureGates") =
                    Map([kubeconfig |-> Leaf(Secrets["kube-proxy"].Data["kubeconfig"]),
                         podAnnotations |-> Map("checksum/secret-kube-proxy" :> Leaf(CheckSums["kube-proxy"]))])

\* The core stage has returned its bundle with neither optional input there.
C13_Witness ==
    /\ CoreComposed
    /\ phase = "Returned"
    /\ DHSecret \notin DOMAIN Secrets
    /\ Shoot.KubeProxy.isNil

\* Every call of the invocation so far succeeded.
AllCallsSucceeded == \A i \in 1..Len(calls) : calls[i].out = NoErr

\* C14: with the proxy, VPN and metrics credentials in the bundle, a core stage
\* whose collaborators all succeed returns a bundle, and the tree the renderer
\* was given has an entry for DNS, proxy, overlay network, VPN, metrics and the
\* node-metrics exporter; the VPN entry has the specification's pod, service
\* and node networks and the tls-auth value of the VPN tls-auth secret.
C14_CoreTree ==
    (stage = "core" /\ RequiredSecrets \subseteq DOMAIN Secrets) =>
        /\ (Len(calls) = Len(CoreProgram) - 1 /\ AllCallsSucceeded) =>
                ret.err = NoErr /\ ret.chart # NilChart
        /\ (ret.chart # NilChart) =>
            LET values == ret.chart.values
            IN  /\ {"kube-dns", "kube-proxy", "calico", "vpn-shoot", "metrics-server", "monitoring"}
                        \subseteq Keys(values)
                /\ \A a \in {"kube-dns", "kube-proxy", "calico", "vpn-shoot", "metrics-server"} :
                        IsMap(values.val[a])
                /\ Has(values.val["monitoring"], "node-exporter")
                /\ IsMap(values.val["monitoring"].val["node-exporter"])
                /\ LET vpn == values.val["vpn-shoot"]
                   IN  /\ {"podNetwork", "serviceNetwork", "nodeNetwork", "tlsAuth"} \subseteq Keys(vpn)
                       /\ vpn.val["podNetwork"] = Leaf(Shoot.PodNetwork)
                       /\ vpn.val["serviceNetwork"] = Leaf(Shoot.ServiceNetwork)
                       /\ vpn.val["nodeNetwork"] = Leaf(Shoot.NodeNetwork)
                       /\ vpn.val["tlsAuth"] = Leaf(Secrets["vpn-seed-tlsauth"].Data["vpn.tlsauth"])
                       /\ vpn.val["tlsAuth"] # Leaf(Nil)

\* The core stage has returned its bundle for a specification with no addon flagged.
C14_Witness ==
    /\ stage = "core"
    /\ phase = "Returned"
    /\ ret.chart # NilChart
    /\ ~Shoot.NginxIngressEnabled /\ ~Shoot.UsedAsSeed /\ Shoot.KubeProxy.isNil
    /\ RequiredSecrets \subseteq DOMAIN Secrets

\* ------------------------------------------------------------------ reruns

\* The stage operation stg has succeeded before with the inputs it has now.
\* (The optional and admission stages read the specification only, which no
\* step changes; the core stage reads the secret bundle and the checksums too.)
RerunOf(stg) ==
    CASE stg = "core" -> lastCore.run /\ lastCore.b = B
      [] stg \in DOMAIN lastValues -> lastValues[stg].run
      [] OTHER -> FALSE

\* The values the renderer was given by that earlier run.
PreviousValues(stg) == IF stg = "core" THEN lastCore.values ELSE lastValues[stg].values

\* A step of a stage operation that runs again with the same inputs.
RerunStep == phase = "Running" /\ RerunOf(stage)

\* C15 (as stated): a second run of a stage operation with the same inputs
\* gives the renderer the same tree, leaves the cluster as the first run left
\* it, and issues no further write or delete.
C15_RerunNoFurtherCall ==
    [][RerunStep =>
        /\ cluster' = cluster
        /\ (phase' = "Returned" => ret'.chart.values = PreviousValues(stage))
        /\ \A i \in 1..Len(calls') : calls'[i].op \notin {"CreateSecret", "DeleteDeployment"}]_vars

\* C15 (amended): a second run of a stage operation with the same inputs gives
\* the renderer the same tree and leaves the cluster as the first run left it;
\* it issues no delete, and the only write it issues is the core stage's
\* vpn-shoot secret, written again with the data it already has.
C15_RerunSameTreeSameCluster ==
    [][RerunStep =>
        /\ cluster' = cluster
        /\ (phase' = "Returned" => ret'.chart.values = PreviousValues(stage))
        /\ \A i \in 1..Len(calls') :
                /\ calls'[i].op # "DeleteDeployment"
                /\ calls'[i].op = "CreateSecret" => stage = "core" /\ calls'[i].arg = "vpn-shoot"]_vars

\* A core stage has returned its bundle after writing the vpn-shoot secret
\* without changing the cluster: it was a second run with the same inputs.
C15_Witness ==
    /\ stage = "core"
    /\ phase = "Returned"
    /\ lastCore.run /\ lastCore.b = B
    /\ \E i \in 1..Len(calls) : calls[i].op = "CreateSecret" /\ calls[i].out = NoErr
    /\ cluster = baseline
    /\ "vpn-shoot" \in DOMAIN baseline.secrets

\* ----------------------------------------------------------------- cleanup

\* The names ListDeployments returned to this invocation.
ListedNames == {items[i] : i \in 1..Len(items)}

\* C16: the optional stage deletes only deployments of the system namespace
\* that its own list for chart=heapster-0.1.1,origin=gardener returned; every
\* other deployment and every secret is in the cluster as it was.
C16_CleanupExact ==
    stage = "optional" =>
        /\ \A i \in 1..Len(calls) :
                calls[i].op = "DeleteDeployment" =>
                    /\ HasCall("ListDeployments")
                    /\ calls[i].arg \in ListedNames
        /\ cluster.secrets = baseline.secrets
        /\ cluster.deployments \subseteq baseline.deployments
        /\ \A d \in baseline.deployments \ cluster.deployments :
                /\ d.ns = "kube-system"
                /\ d.labels = "chart=heapster-0.1.1,origin=gardener"
                /\ d.name \in ListedNames
        /\ OtherDeployments \subseteq cluster.deployments

\* The optional stage has deleted what it listed, next to a deployment of the
\* same name and labels in another namespace and one with other labels.
C16_Witness ==
    /\ stage = "optional"
    /\ phase = "Returned"
    /\ Len(items) = MaxLegacy
    /\ baseline.deployments \ cluster.deployments = LegacyDeployments
    /\ \E d \in cluster.deployments : d.ns # "kube-system" /\ d.name \in ListedNames

\* ------------------------------------------------------------------ inputs

\* C17: no step of a stage operation, successful or failing, changes the
\* secret bundle, the checksums or the specification; the secret data placed
\* into the metrics-server configuration is the bundle's, before and after
\* image resolution and rendering.
C17_InputsReadOnly ==
    [][phase = "Running" =>
        /\ Secrets' = Secrets
        /\ CheckSums' = CheckSums
        /\ Shoot' = Shoot
        /\ (stage = "core" /\ "metrics-server" \in DOMAIN configs') =>
                Get(configs'["metrics-server"], << "secret", "data" >>)
                    = Leaf(<<"data", Secrets["metrics-server"].Data>>)
        /\ (stage = "core" /\ "metrics-server" \in DOMAIN injected' /\ injected'["metrics-server"] # NilTree) =>
                Get(injected'["metrics-server"], << "secret", "data" >>)
                    = Leaf(<<"data", Secrets["metrics-server"].Data>>)]_vars

\* Each of the three stage operations has run in this cycle, the last one failing.
C17_Witness ==
    /\ stage = "admission"
    /\ StageFailed
    /\ Len(applied) = 2

\* --------------------------------------------- the ingress limits override

\* C18: the ingress configuration has controller.resources.limits (cpu 500m,
\* memory 1024Mi) exactly when the ingress addon is enabled and the cluster is
\* used as seed; with the addon disabled, used as seed or not, it is the
\* provider's base configuration: no limits, no source-range key added.
C18_LimitsIffEnabledSeed ==
    IngressComposed =>
        LET base == NginxIngressBase(Shoot)
        IN  /\ HasPath(IngressConfig, LimitsPath) <=> (Shoot.NginxIngressEnabled /\ Shoot.UsedAsSeed)
            /\ HasPath(IngressConfig, LimitsPath) => Get(IngressConfig, LimitsPath) = IngressLimits
            /\ ~Shoot.NginxIngressEnabled =>
                    /\ IngressConfig = base
                    /\ ~HasPath(IngressConfig, LimitsPath)
                    /\ HasPath(IngressConfig, SourceRangesPath) => HasPath(base, SourceRangesPath)

\* Image resolution has been given the ingress configuration of a cluster
\* used as seed with the ingress addon disabled.
C18_Witness ==
    /\ IngressInjected
    /\ Shoot.UsedAsSeed
    /\ ~Shoot.NginxIngressEnabled

\* ------------------------------------------------- an absent required secret

\* Cycles for a secret bundle that lacks one of the required secrets.
InitMissing ==
    \E n \in RequiredSecrets, withDH \in BOOLEAN :
        LET all == InitialSecrets(withDH)
        IN  InitOf([m \in DOMAIN all \ {n} |-> all[m]], DefaultShoot, LegacyDeployments, NoPeer)

SpecMissing == InitMissing /\ [][Next]_vars

\* C19: with a required secret absent from the bundle, the core stage ends
\* Failed with an error for its caller before any image resolution, write or
\* render; it neither terminates abnormally nor goes on without the secret.
C19_MissingSecretFails ==
    (stage = "core" /\ ~(RequiredSecrets \subseteq DOMAIN Secrets)) =>
        /\ phase # "Panicked"
        /\ phase = "Running" => pc = 1
        /\ phase # "Running" => StageFailed
        /\ calls = << >>

\* ------------------------------------------- a second, concurrent invocation

\* A second invocation of generateOptionalAddonsChart for the same cluster,
\* running next to the cycle without the single-flight guarantee. It is
\* followed from its ListDeployments statement on: its statements before that
\* touch nothing the two invocations share.
PeerStart == [pc |-> "ListDeployments", items |-> << >>, idx |-> 1, calls |-> << >>]

\* heapsterDeployments, err := b.K8sShootClient.ListDeployments(kube-system, selector)
PeerListDeploymentsCall ==
    /\ peer.pc = "ListDeployments"
    /\ \E err \in Outcomes :
        LET listed == IF err = NoErr
                      THEN ListedDeployments(cluster.deployments, NamespaceSystem, LegacyLabels)
                      ELSE << >>
        IN  peer' = [pc |-> IF ErrNotNil(err) THEN "Failed"
                            ELSE IF listed = << >> THEN "Render" ELSE "DeleteDeployment",
                     items |-> listed,
                     idx |-> 1,
                     calls |-> Append(peer.calls, Call("ListDeployments", LegacyLabels, err))]
    /\ UNCHANGED << phase, stage, pc, inputs, locals, ret, cluster, applied, calls, baseline, history >>

\* One iteration of the loop: b.K8sShootClient.DeleteDeployment(kube-system, deployment.Name)
PeerDeleteDeploymentCall ==
    /\ peer.pc = "DeleteDeployment"
    /\ peer.idx \in 1..Len(peer.items)
    /\ LET name == peer.items[peer.idx]
           there == ExistsDeployment(cluster.deployments, NamespaceSystem, name)
       IN  \E err \in (IF there THEN {NoErr, CollabErr("Other")} ELSE CollabErrors) :
            /\ cluster' = IF err = NoErr
                          THEN [cluster EXCEPT !.deployments = WithoutDeployment(@, NamespaceSystem, name)]
                          ELSE cluster
            /\ baseline' = IF err = NoErr
                           THEN [baseline EXCEPT !.deployments = WithoutDeployment(@, NamespaceSystem, name)]
                           ELSE baseline
            /\ peer' = [peer EXCEPT
                            !.calls = Append(@, Call("DeleteDeployment", name, err)),
                            !.idx = IF DeleteFails(err) THEN @ ELSE @ + 1,
                            !.pc = IF DeleteFails(err) THEN "Failed"
                                   ELSE IF peer.idx < Len(peer.items) THEN "DeleteDeployment" ELSE "Render"]
    /\ UNCHANGED << phase, stage, pc, inputs, locals, ret, applied, calls, history >>

\* return b.ChartShootRenderer.Render(...)
PeerRenderCall ==
    /\ peer.pc = "Render"
    /\ \E err \in Outcomes :
        peer' = [peer EXCEPT !.calls = Append(@, Call("Render", "shoot-addons", err)),
                             !.pc = IF err = NoErr THEN "Returned" ELSE "Failed"]
    /\ UNCHANGED << phase, stage, pc, inputs, locals, ret, cluster, applied, calls, baseline, history >>

InitRace == InitOf(InitialSecrets(FALSE), DefaultShoot, LegacyDeployments, PeerStart)

\* One cycle with the two invocations side by side.
NextRace ==
    \/ Gather
    \/ ComposeCore
    \/ InjectImagesCall
    \/ GenerateConfigCall
    \/ CreateSecretCall
    \/ ListDeploymentsCall
    \/ DeleteDeploymentCall
    \/ RenderCall
    \/ Apply
    \/ OtherActorDelete
    \/ PeerListDeploymentsCall
    \/ PeerDeleteDeploymentCall
    \/ PeerRenderCall

SpecRace == InitRace /\ [][NextRace]_vars

\* The first invocation has listed and finished its delete loop without error.
CleanupDone ==
    /\ stage = "optional"
    /\ Listed
    /\ \/ phase = "Running" /\ Cur.op = "Render"
       \/ HasCall("Render")
\* ... and so has the second.
PeerCleanupDone == peer.pc \in {"Render", "Returned"} \/ (peer.pc = "Failed" /\ peer.calls[Len(peer.calls)].op = "Render")
PeerListedNames == {peer.items[i] : i \in 1..Len(peer.items)}
\* The deletes of an invocation's call log that found the deployment gone.
NotFoundDeletes(log) == {i \in 1..Len(log) : log[i].op = "DeleteDeployment" /\ log[i].out.kind = "NotFound"}

\* C20: when two optional-stage cleanups of the same cluster interleave, or
\* another actor deletes a listed deployment between list and delete, a delete
\* of a deployment that is gone answers not-found and fails neither
\* invocation (only a remote failure of a call does): an invocation whose
\* deletes all answered success or not-found goes on to its render, and once
\* both have finished their loops no deployment of either listing remains.
C20_InterleavedCleanup ==
    /\ (stage = "optional" /\ StageFailed /\ LastCall.op = "DeleteDeployment") => LastCall.out.kind = "Other"
    /\ (peer.pc = "Failed" /\ peer.calls[Len(peer.calls)].op = "DeleteDeployment") =>
            peer.calls[Len(peer.calls)].out.kind = "Other"
    /\ (stage = "optional" /\ phase = "Running" /\ Listed /\ idx > Len(items)) => Cur.op = "Render"
    /\ (peer.pc = "DeleteDeployment") => peer.idx <= Len(peer.items)
    /\ (CleanupDone /\ PeerCleanupDone) =>
            \A n \in ListedNames \cup PeerListedNames :
                ~ExistsDeployment(cluster.deployments, "kube-system", n)

\* Both invocations listed every legacy deployment, each found one gone at its
\* delete, and both have rendered.
C20_Witness ==
    /\ stage = "optional" /\ phase = "Returned"
    /\ peer.pc = "Returned"
    /\ Len(items) = MaxLegacy /\ Len(peer.items) = MaxLegacy
    /\ NotFoundDeletes(calls) # {}
    /\ NotFoundDeletes(peer.calls) # {}

============================================================================
